---- MODULE Spec2Model ----
(***************************************************************************)
(* Model of music-metadata-cleaner (src/src/lib.rs).                       *)
(*                                                                         *)
(* A string is a sequence of one-character strings.  Every regular         *)
(* expression of the crate is modelled by an operator R(s, i) that gives   *)
(* the index just past the leftmost-first match of R that starts at index  *)
(* i of s, or 0 when R has no match starting there.  Regex::replace_all    *)
(* is modelled by FindMatches / Rebuild: non-overlapping matches are       *)
(* searched from the left, each search resuming where the previous match   *)
(* ended.                                                                  *)
(***************************************************************************)
EXTENDS Integers, Sequences, FiniteSets, TLC

\* Largest number of tokens concatenated into a generated input.
MaxTokens == 4

----------------------------------------------------------------------------
(* Character classes of the regex crate (ASCII POSIX classes).             *)

\* [0-9]; \d restricted to the ASCII digits the inputs are drawn from.
Digit == {"0", "1", "2", "3", "4", "5", "6", "7", "8", "9"}

\* [[:punct:]] (U+0060, the grave accent, cannot be written in a TLA+ string
\* and is left out)
Punct == {"!", "\"", "#", "$", "%", "&", "'", "(", ")", "*", "+", ",", "-",
          ".", "/", ":", ";", "<", "=", ">", "?", "@", "[", "\\", "]", "^",
          "_", "{", "|", "}", "~"}

\* [[:space:]] (U+000B has no TLA+ string escape and is left out)
Space == {" ", "\t", "\n", "\r", "\f"}

\* [\(|[[:punct:]]|[[:space:]]] and [\)|[[:punct:]]|[[:space:]]]: the union
\* of the nested classes; "(", ")" and "|" are punctuation already.
PunctOrSpace == Punct \cup Space

UpperCase == <<"A", "B", "C", "D", "E", "F", "G", "H", "I", "J", "K", "L", "M",
               "N", "O", "P", "Q", "R", "S", "T", "U", "V", "W", "X", "Y", "Z">>
LowerCase == <<"a", "b", "c", "d", "e", "f", "g", "h", "i", "j", "k", "l", "m",
               "n", "o", "p", "q", "r", "s", "t", "u", "v", "w", "x", "y", "z">>

\* Case folding of the (?i) flag: a literal letter matches both its cases.
Fold(c) ==
    IF \E n \in 1..26 : UpperCase[n] = c
    THEN LowerCase[CHOOSE n \in 1..26 : UpperCase[n] = c]
    ELSE c

\* s[i] when i is an index of s, and a value outside every class otherwise.
At(s, i) == IF i >= 1 /\ i <= Len(s) THEN s[i] ELSE "<end>"

\* Index just past the longest run of characters of class cls that starts at
\* i (i itself when s[i] is not in cls): a greedy cls* at i.
RECURSIVE RunEnd(_, _, _)
RunEnd(s, i, cls) ==
    IF i <= Len(s) /\ s[i] \in cls THEN RunEnd(s, i + 1, cls) ELSE i

----------------------------------------------------------------------------
(* The regular expressions.                                                *)

\* (?:19|20)[0-9]{2}[\)|[[:punct:]]]? starting exactly at j: the closing
\* punctuation made optional, as the opening one is.
YearCoreOptionalClose(s, j) ==
    IF /\ <<At(s, j), At(s, j + 1)>> \in {<<"1", "9">>, <<"2", "0">>}
       /\ At(s, j + 2) \in Digit
       /\ At(s, j + 3) \in Digit
    THEN IF At(s, j + 4) \in Punct THEN j + 5 ELSE j + 4
    ELSE 0

\* (?:19|20)[0-9]{2}[\)|[[:punct:]]] starting exactly at j.
YearCoreEnd(s, j) ==
    IF /\ <<At(s, j), At(s, j + 1)>> \in {<<"1", "9">>, <<"2", "0">>}
       /\ At(s, j + 2) \in Digit
       /\ At(s, j + 3) \in Digit
       /\ At(s, j + 4) \in Punct
    THEN j + 5
    ELSE 0

\* YEAR_REGEX: [\(|[[:punct:]]]?(?:19|20)[0-9]{2}[\)|[[:punct:]]]
YEAR_REGEX(s, i) ==
    IF At(s, i) \in Punct /\ YearCoreEnd(s, i + 1) > 0
    THEN YearCoreEnd(s, i + 1)
    ELSE YearCoreEnd(s, i)

\* (?i)mp3 starting exactly at j, case sensitive: the (?i) flag dropped.
Mp3CoreCaseSensitive(s, j) ==
    /\ At(s, j) = "m"
    /\ At(s, j + 1) = "p"
    /\ At(s, j + 2) = "3"

\* (?i)mp3 starting exactly at j.
Mp3Core(s, j) ==
    /\ Fold(At(s, j)) = "m"
    /\ Fold(At(s, j + 1)) = "p"
    /\ At(s, j + 2) = "3"

\* (?i)mp3[\)|[[:punct:]]|[[:space:]]]? starting exactly at j.
Mp3CoreEnd(s, j) ==
    IF Mp3Core(s, j)
    THEN IF At(s, j + 3) \in PunctOrSpace THEN j + 4 ELSE j + 3
    ELSE 0

\* MP3_REGEX: [\(|[[:punct:]]|[[:space:]]]?(?i)mp3[\)|[[:punct:]]|[[:space:]]]?
MP3_REGEX(s, i) ==
    IF At(s, i) \in PunctOrSpace /\ Mp3CoreEnd(s, i + 1) > 0
    THEN Mp3CoreEnd(s, i + 1)
    ELSE Mp3CoreEnd(s, i)

\* (?i)kbps starting exactly at j.
KbpsAt(s, j) ==
    /\ Fold(At(s, j)) = "k"
    /\ Fold(At(s, j + 1)) = "b"
    /\ Fold(At(s, j + 2)) = "p"
    /\ Fold(At(s, j + 3)) = "s"

\* \d+[[:space:]]]*kbps[\)|[[:punct:]]|[[:space:]]]? starting exactly at j.
\* In "[[:space:]]]*" the class closes at the second "]": the pattern is one
\* whitespace character followed by any number of literal "]".
BitrateCoreEnd(s, j) ==
    LET d == RunEnd(s, j, Digit)
        b == RunEnd(s, d + 1, {"]"})
    IN  IF /\ d > j
           /\ At(s, d) \in Space
           /\ KbpsAt(s, b)
        THEN IF At(s, b + 4) \in PunctOrSpace THEN b + 5 ELSE b + 4
        ELSE 0

\* BITRATE_REGEX without its optional opening character.
BitrateNoOpening(s, i) == BitrateCoreEnd(s, i)

\* BITRATE_REGEX:
\* [\(|[[:punct:]]|[[:space:]]]?(?i)\d+[[:space:]]]*kbps[\)|[[:punct:]]|[[:space:]]]?
BITRATE_REGEX(s, i) ==
    IF At(s, i) \in PunctOrSpace /\ BitrateCoreEnd(s, i + 1) > 0
    THEN BitrateCoreEnd(s, i + 1)
    ELSE BitrateCoreEnd(s, i)

\* [[:space:]]+ with the "+" dropped: one whitespace character per match.
RedundantSingle(s, i) ==
    IF At(s, i) \in Space THEN i + 1 ELSE 0

\* REDUNDANT_WHITESPACE_REGEX: [[:space:]]+
REDUNDANT_WHITESPACE_REGEX(s, i) ==
    IF RunEnd(s, i, Space) > i THEN RunEnd(s, i, Space) ELSE 0

\* BEGINNING_WHITESPACE_REGEX: ^[[:space:]]+
BEGINNING_WHITESPACE_REGEX(s, i) ==
    IF i = 1 /\ RunEnd(s, i, Space) > i THEN RunEnd(s, i, Space) ELSE 0

\* ENDING_WHITESPACE_REGEX: [[:space:]]+$
ENDING_WHITESPACE_REGEX(s, i) ==
    IF RunEnd(s, i, Space) > i /\ RunEnd(s, i, Space) = Len(s) + 1
    THEN Len(s) + 1
    ELSE 0

\* The match of the named regex at index i.
MatchEnd(re, s, i) ==
    CASE re = "YEAR" -> YEAR_REGEX(s, i)
      [] re = "MP3" -> MP3_REGEX(s, i)
      [] re = "BITRATE" -> BITRATE_REGEX(s, i)
      [] re = "REDUNDANT_WHITESPACE" -> REDUNDANT_WHITESPACE_REGEX(s, i)
      [] re = "BEGINNING_WHITESPACE" -> BEGINNING_WHITESPACE_REGEX(s, i)
      [] re = "ENDING_WHITESPACE" -> ENDING_WHITESPACE_REGEX(s, i)

----------------------------------------------------------------------------
(* Regex::replace_all.                                                     *)

\* The non-overlapping matches of re in s found from index i on, each as
\* <<first index, index just past the match>>.  No pattern of the crate has
\* an empty match, so the search resumes at the end of the previous match.
RECURSIVE FindMatches(_, _, _)
FindMatches(re, s, i) ==
    IF i > Len(s)
    THEN <<>>
    ELSE IF MatchEnd(re, s, i) > 0
         THEN <<<<i, MatchEnd(re, s, i)>>>> \o FindMatches(re, s, MatchEnd(re, s, i))
         ELSE FindMatches(re, s, i + 1)

\* t from index i on, with every match of ms replaced by rep.
RECURSIVE Rebuild(_, _, _, _)
Rebuild(t, ms, rep, i) ==
    IF ms = <<>>
    THEN SubSeq(t, i, Len(t))
    ELSE SubSeq(t, i, ms[1][1] - 1) \o rep \o Rebuild(t, Tail(ms), rep, ms[1][2])

\* re.replace_all(s, rep)
replace_all(re, s, rep) == Rebuild(s, FindMatches(re, s, 1), rep, 1)

----------------------------------------------------------------------------
(* The stages and the entry points.                                        *)

remove_year_annotation(dirty) == replace_all("YEAR", dirty, <<" ">>)

remove_bitrate_annotation(dirty) == replace_all("BITRATE", dirty, <<" ">>)

\* remove_mp3_format_label replacing each match with a dash.
remove_mp3_with_dash(dirty) == replace_all("MP3", dirty, <<"-">>)

remove_mp3_format_label(dirty) == replace_all("MP3", dirty, <<" ">>)

\* remove_redundant_whitespace without its third replacement.
remove_redundant_whitespace_no_ending(dirty) ==
    LET dirty_1 == replace_all("REDUNDANT_WHITESPACE", dirty, <<" ">>)
        dirty_2 == replace_all("BEGINNING_WHITESPACE", dirty_1, <<>>)
    IN  dirty_2

remove_redundant_whitespace(dirty) ==
    LET dirty_1 == replace_all("REDUNDANT_WHITESPACE", dirty, <<" ">>)
        dirty_2 == replace_all("BEGINNING_WHITESPACE", dirty_1, <<>>)
        dirty_3 == replace_all("ENDING_WHITESPACE", dirty_2, <<>>)
    IN  dirty_3

fix_common(dirty) ==
    LET dirty_1 == remove_year_annotation(dirty)
        dirty_2 == remove_mp3_format_label(dirty_1)
        dirty_3 == remove_bitrate_annotation(dirty_2)
        dirty_4 == remove_redundant_whitespace(dirty_3)
    IN  dirty_4

\* String::to_string / str::to_string: an owned copy of the same text.
to_string(text) == text

\* vec![x] with the element dropped: an empty vector.
vec_empty(x) == <<>>

\* vec![x]: the vector whose only element is x.
vec(x) == <<x>>

----------------------------------------------------------------------------
(* The inputs.                                                             *)

\* The strings the generated inputs are concatenated from: a year, a digit,
\* the format label, the bitrate unit, two whitespace characters, a
\* punctuation character (the one BITRATE_REGEX also names literally) and a
\* letter.
Tokens ==
    { <<"1", "9", "1", "9">>, <<"1">>, <<"M", "p", "3">>,
      <<"k", "b", "p", "s">>, <<" ">>, <<"\t">>, <<"]">>, <<"x">> }

\* The concatenations of at most n tokens.
RECURSIVE Concatenations(_)
Concatenations(n) ==
    IF n = 0
    THEN {<<>>}
    ELSE Concatenations(n - 1)
             \cup {c \o t : c \in Concatenations(n - 1), t \in Tokens}

\* The expected value of tests::fix_album_title_1 and _2:
\* "Tyler, The Creator - IGOR"
TylerClean ==
    <<"T", "y", "l", "e", "r", ",", " ", "T", "h", "e", " ", "C", "r", "e",
      "a", "t", "o", "r", " ", "-", " ", "I", "G", "O", "R">>

\* The input of tests::fix_album_title_1:
\* "Tyler, The Creator - IGOR (2019) Mp3 (320 kbps)"
Tyler1 ==
    TylerClean \o <<" ", "(", "2", "0", "1", "9", ")", " ", "M", "p", "3", " ",
                    "(", "3", "2", "0", " ", "k", "b", "p", "s", ")">>

\* The input of tests::fix_album_title_2:
\* "Tyler, The Creator - IGOR (2019) [Mp3] (320 kbps)"
Tyler2 ==
    TylerClean \o <<" ", "(", "2", "0", "1", "9", ")", " ", "[", "M", "p", "3",
                    "]", " ", "(", "3", "2", "0", " ", "k", "b", "p", "s", ")">>

\* "320kbps", "320 kbps", "320KBPS" and the doc comment's "(128kbps)".
Bitrate320 == <<"3", "2", "0", "k", "b", "p", "s">>
Bitrate320Spaced == <<"3", "2", "0", " ", "k", "b", "p", "s">>
Bitrate320Upper == <<"3", "2", "0", "K", "B", "P", "S">>
Bitrate128Doc == <<"(", "1", "2", "8", "k", "b", "p", "s", ")">>

\* "Song 2019" and "Released 2019 album": years without framing.
Song2019 == <<"S", "o", "n", "g", " ", "2", "0", "1", "9">>
Released2019 ==
    <<"R", "e", "l", "e", "a", "s", "e", "d", " ", "2", "0", "1", "9", " ",
      "a", "l", "b", "u", "m">>

\* "(2019)" and "[1997]": the year annotations of the doc comment.
Year2019Round == <<"(", "2", "0", "1", "9", ")">>
Year1997Square == <<"[", "1", "9", "9", "7", "]">>

\* "  Artist   -   Song  Title  "
ArtistSongTitle ==
    <<" ", " ", "A", "r", "t", "i", "s", "t", " ", " ", " ", "-", " ", " ",
      " ", "S", "o", "n", "g", " ", " ", "T", "i", "t", "l", "e", " ", " ">>

\* The strings of the tests and of the documentation.
Examples ==
    { Tyler1, Tyler2, TylerClean, Bitrate320, Bitrate320Spaced,
      Bitrate320Upper, Bitrate128Doc, Song2019, Released2019, Year2019Round,
      Year1997Square, ArtistSongTitle,
      <<"M", "P", "3">>, <<"m", "p", "3">>, <<"M", "p", "3">> }

\* Titles, and the annotations that follow a title in the two tests: a
\* bracketed year, a format label (bare or bracketed) and a bracketed
\* bitrate written "<digits> kbps".
Titles == { TylerClean, <<"x">>, <<"T", "r", "a", "c", "k", " ", "1">> }
YearTags == { Year2019Round, Year1997Square }
Mp3Tags ==
    { <<"M", "p", "3">>, <<"[", "M", "p", "3", "]">>, <<"m", "p", "3">>,
      <<"(", "M", "P", "3", ")">> }
BitrateTags ==
    { <<"(", "3", "2", "0", " ", "k", "b", "p", "s", ")">>,
      <<"[", "1", " ", "K", "b", "p", "s", "]">> }

\* title, year, label and bitrate separated by single spaces.
Annotated(title, year, label, bitrate) ==
    title \o <<" ">> \o year \o <<" ">> \o label \o <<" ">> \o bitrate

AnnotatedTitles ==
    { Annotated(t, y, l, b) :
          t \in Titles, y \in YearTags, l \in Mp3Tags, b \in BitrateTags }

\* Inputs in which the stages meet: "Song 2019 1997 kbps (2019)",
\* "1mp3kbps", "1(2019)kbps", "1  kbps" and "1 2 kbps kbps".
Mixed ==
    { Song2019 \o <<" ", "1", "9", "9", "7", " ", "k", "b", "p", "s", " ">>
               \o Year2019Round,
      <<"1", "m", "p", "3", "k", "b", "p", "s">>,
      <<"1">> \o Year2019Round \o <<"k", "b", "p", "s">>,
      <<"1", " ", " ", "k", "b", "p", "s">>,
      <<"1", " ", "2", " ", "k", "b", "p", "s", " ", "k", "b", "p", "s">> }

\* Every input a call is made with.
Inputs ==
    Concatenations(MaxTokens) \cup Examples \cup AnnotatedTitles \cup Mixed

\* The public functions.
Entries ==
    {"fix_common", "fix_album_title", "fix_track_title", "fix_artists_string"}

----------------------------------------------------------------------------
(* The state machine: one call of a public function, stage by stage, and   *)
(* a second call on the text the first one produced.                       *)

VARIABLES
    input,      \* the argument of the call
    entry,      \* the public function called
    pass,       \* 1 for a call on an input, 2 for the call on its result
    pc,         \* the next step of the call
    dirty,      \* the text as rewritten so far (dirty, dirty_1 .. dirty_4)
    origin,     \* history: for each character of dirty, its index in input,
                \* 0 for a character a replacement inserted
    removedBy,  \* history: for each index of input, the stage that removed
                \* the character, "kept" while it is still in dirty
    ret         \* the value returned

vars == <<input, entry, pass, pc, dirty, origin, removedBy, ret>>

\* The elements of a sequence.
Range(f) == {f[n] : n \in DOMAIN f}

\* The history of a call that starts on text s.
Untouched(s) == [p \in 1..Len(s) |-> "kept"]

\* removedBy after a stage that leaves the characters of origin o.
Mark(stage, o) ==
    [p \in DOMAIN removedBy |->
        IF removedBy[p] = "kept" /\ p \notin Range(o) THEN stage ELSE removedBy[p]]

\* origin rewritten as re.replace_all rewrites the text s.
Track(re, s, o, rep) == Rebuild(o, FindMatches(re, s, 1), rep, 1)

\* origin rewritten as remove_redundant_whitespace rewrites the text s.
TrackWhitespace(s, o) ==
    LET dirty_1 == replace_all("REDUNDANT_WHITESPACE", s, <<" ">>)
        o_1 == Track("REDUNDANT_WHITESPACE", s, o, <<0>>)
        dirty_2 == replace_all("BEGINNING_WHITESPACE", dirty_1, <<>>)
        o_2 == Track("BEGINNING_WHITESPACE", dirty_1, o_1, <<>>)
    IN  Track("ENDING_WHITESPACE", dirty_2, o_2, <<>>)

Init ==
    /\ input \in Inputs
    /\ entry \in Entries
    /\ pass = 1
    /\ pc = "year"
    /\ dirty = input
    /\ origin = [p \in 1..Len(input) |-> p]
    /\ removedBy = Untouched(input)
    /\ ret = <<>>

\* fix_common: let dirty_1 = remove_year_annotation(dirty);
RemoveYearAnnotation ==
    /\ pc = "year"
    /\ dirty' = remove_year_annotation(dirty)
    /\ origin' = Track("YEAR", dirty, origin, <<0>>)
    /\ removedBy' = Mark("year", origin')
    /\ pc' = "mp3"
    /\ UNCHANGED <<input, entry, pass, ret>>

\* fix_common: let dirty_2 = remove_mp3_format_label(&dirty_1);
RemoveMp3FormatLabel ==
    /\ pc = "mp3"
    /\ dirty' = remove_mp3_format_label(dirty)
    /\ origin' = Track("MP3", dirty, origin, <<0>>)
    /\ removedBy' = Mark("mp3", origin')
    /\ pc' = "bitrate"
    /\ UNCHANGED <<input, entry, pass, ret>>

\* fix_common: let dirty_3 = remove_bitrate_annotation(&dirty_2);
RemoveBitrateAnnotation ==
    /\ pc = "bitrate"
    /\ dirty' = remove_bitrate_annotation(dirty)
    /\ origin' = Track("BITRATE", dirty, origin, <<0>>)
    /\ removedBy' = Mark("bitrate", origin')
    /\ pc' = "whitespace"
    /\ UNCHANGED <<input, entry, pass, ret>>

\* fix_common: let dirty_4 = remove_redundant_whitespace(&dirty_3);
RemoveRedundantWhitespace ==
    /\ pc = "whitespace"
    /\ dirty' = remove_redundant_whitespace(dirty)
    /\ origin' = TrackWhitespace(dirty, origin)
    /\ removedBy' = Mark("whitespace", origin')
    /\ pc' = "return"
    /\ UNCHANGED <<input, entry, pass, ret>>

\* fix_common: dirty_4.deref().to_string()
FixCommon ==
    /\ pc = "return"
    /\ entry = "fix_common"
    /\ ret' = to_string(dirty)
    /\ pc' = "done"
    /\ UNCHANGED <<input, entry, pass, dirty, origin, removedBy>>

\* fix_album_title: fix_common(dirty).to_string()
FixAlbumTitle ==
    /\ pc = "return"
    /\ entry = "fix_album_title"
    /\ ret' = to_string(to_string(dirty))
    /\ pc' = "done"
    /\ UNCHANGED <<input, entry, pass, dirty, origin, removedBy>>

\* fix_track_title: fix_common(dirty).to_string()
FixTrackTitle ==
    /\ pc = "return"
    /\ entry = "fix_track_title"
    /\ ret' = to_string(to_string(dirty))
    /\ pc' = "done"
    /\ UNCHANGED <<input, entry, pass, dirty, origin, removedBy>>

\* fix_artists_string: vec![fix_common(dirty).to_string()]
FixArtistsString ==
    /\ pc = "return"
    /\ entry = "fix_artists_string"
    /\ ret' = vec(to_string(to_string(dirty)))
    /\ pc' = "done"
    /\ UNCHANGED <<input, entry, pass, dirty, origin, removedBy>>

\* The caller passes the cleaned text to the same function again.
Reclean ==
    /\ pc = "done"
    /\ pass = 1
    /\ input' = dirty
    /\ pass' = 2
    /\ pc' = "year"
    /\ origin' = [p \in 1..Len(dirty) |-> p]
    /\ removedBy' = Untouched(dirty)
    /\ ret' = <<>>
    /\ UNCHANGED <<entry, dirty>>

Next ==
    \/ RemoveYearAnnotation
    \/ RemoveMp3FormatLabel
    \/ RemoveBitrateAnnotation
    \/ RemoveRedundantWhitespace
    \/ FixCommon
    \/ FixAlbumTitle
    \/ FixTrackTitle
    \/ FixArtistsString
    \/ Reclean

Spec == Init /\ [][Next]_vars

\* The cleaned text a finished call produced.
Cleaned == IF entry = "fix_artists_string" THEN ret[1] ELSE ret

----------------------------------------------------------------------------
(* Vocabulary of the properties.                                           *)

\* A call has returned.
Done == pc = "done"

\* The characters of s that are not whitespace, in order.
NonSpace(s) == SelectSeq(s, LAMBDA c : c \notin Space)

\* a is a subsequence of b from index i of a and index j of b on.
RECURSIVE IsSubseqFrom(_, _, _, _)
IsSubseqFrom(a, b, i, j) ==
    IF i > Len(a) THEN TRUE
    ELSE IF j > Len(b) THEN FALSE
    ELSE IF a[i] = b[j] THEN IsSubseqFrom(a, b, i + 1, j + 1)
    ELSE IsSubseqFrom(a, b, i, j + 1)

IsSubseq(a, b) == IsSubseqFrom(a, b, 1, 1)

\* The label mp3, in any letter case, starts at index i of s.
Mp3At(s, i) ==
    /\ At(s, i) \in {"m", "M"}
    /\ At(s, i + 1) \in {"p", "P"}
    /\ At(s, i + 2) = "3"

ContainsMp3(s) == \E i \in 1..Len(s) : Mp3At(s, i)

\* The unit kbps, in any letter case, starts at index i of s.
UnitAt(s, i) ==
    /\ At(s, i) \in {"k", "K"}
    /\ At(s, i + 1) \in {"b", "B"}
    /\ At(s, i + 2) \in {"p", "P"}
    /\ At(s, i + 3) \in {"s", "S"}

\* Index of the last character before index i of s that is not whitespace,
\* 0 when there is none.
RECURSIVE LastNonSpaceBefore(_, _)
LastNonSpaceBefore(s, i) ==
    IF i <= 1 THEN 0
    ELSE IF s[i - 1] \in Space THEN LastNonSpaceBefore(s, i - 1)
    ELSE i - 1

\* The unit at index i of s follows digits, directly or across whitespace.
UnitFollowsDigits(s, i) == At(s, LastNonSpaceBefore(s, i)) \in Digit

\* The four digits of a year 19xx or 20xx start at index i of s.
YearDigitsAt(s, i) ==
    /\ <<At(s, i), At(s, i + 1)>> \in {<<"1", "9">>, <<"2", "0">>}
    /\ At(s, i + 2) \in Digit
    /\ At(s, i + 3) \in Digit

\* A bare year: a four-digit number 19xx or 20xx with no punctuation on
\* either side.
BareYearAt(s, i) ==
    /\ YearDigitsAt(s, i)
    /\ At(s, i - 1) \notin Digit \cup Punct
    /\ At(s, i + 4) \notin Digit \cup Punct

\* A framed year: the digits of a year with punctuation right after them.
FramedYearAt(s, i) ==
    /\ YearDigitsAt(s, i)
    /\ At(s, i + 4) \in Punct

\* The characters at indices i .. i+n-1 of the input are still in the text,
\* side by side.
KeptTogether(i, n) ==
    \E j \in 1..Len(dirty) :
        \A k \in 0..(n - 1) :
            /\ At(origin, j + k) = i + k
            /\ At(dirty, j + k) = input[i + k]

\* Every character at indices i .. i+n-1 of the input was removed by one of
\* the given stages.
RemovedBy(i, n, stages) == \A k \in 0..(n - 1) : removedBy[i + k] \in stages

\* Some character of the input was removed by the stage.
SomeRemovedBy(stage) == \E p \in DOMAIN removedBy : removedBy[p] = stage

----------------------------------------------------------------------------
(* The properties.                                                         *)

\* C1: idempotence.  A call on the text a first call returned gives that
\* text back: fix_common(fix_common(s)) = fix_common(s).
C1_Idempotent == (Done /\ pass = 2) => Cleaned = input

\* C2: the text returned has no leading and no trailing whitespace
\* character.
C2_NoOuterWhitespace ==
    Done => \/ Cleaned = <<>>
            \/ /\ Cleaned[1] \notin Space
               /\ Cleaned[Len(Cleaned)] \notin Space

\* The input begins with whitespace and ends with an annotation that a
\* stage replaced by a space, and the text returned is not empty.
C2_Witness ==
    /\ Done
    /\ pass = 1
    /\ Len(input) >= 3
    /\ input[1] \in Space
    /\ removedBy[Len(input)] \in {"year", "mp3", "bitrate"}
    /\ Cleaned # <<>>

\* C3: the text returned has no two consecutive whitespace characters, the
\* spaces the year, mp3 and bitrate stages insert included.
C3_NoWhitespaceRuns ==
    Done => \A i \in 1..(Len(Cleaned) - 1) :
                ~(Cleaned[i] \in Space /\ Cleaned[i + 1] \in Space)

\* A stage replaced an annotation that had whitespace right before it, and
\* text is left on both sides of the gap.
C3_Witness ==
    /\ Done
    /\ pass = 1
    /\ \E p \in 2..(Len(input) - 1) :
          /\ input[p - 1] \in Space
          /\ removedBy[p] \in {"year", "mp3", "bitrate"}
          /\ \E q \in 1..(p - 1) : removedBy[q] = "kept"
          /\ \E q \in (p + 1)..Len(input) : removedBy[q] = "kept"

C5_BitrateRemoved ==
    (Done /\ pass = 1) =>
        \A i \in 1..Len(input) :
            (UnitAt(input, i) /\ UnitFollowsDigits(input, i))
                => RemovedBy(i, 4, {"year", "mp3", "bitrate", "whitespace"})

\* C6: once the mp3 stage has run the text holds no mp3 in any letter
\* case, and neither does the text returned.
C6_NoMp3Left ==
    /\ pc \notin {"year", "mp3"} => ~ContainsMp3(dirty)
    /\ Done => ~ContainsMp3(Cleaned)

\* The input held the label with a capital letter and the mp3 stage
\* removed it, while other text is returned.
C6_Witness ==
    /\ Done
    /\ pass = 1
    /\ \E p \in 1..Len(input) :
          /\ Mp3At(input, p)
          /\ input[p] = "M"
          /\ RemovedBy(p, 3, {"mp3"})
    /\ Cleaned # <<>>

\* C7: fix_artists_string returns exactly one element, fix_common of the
\* input; fix_album_title and fix_track_title return fix_common of the
\* input.
C7_Wrappers ==
    Done =>
        /\ entry = "fix_artists_string" =>
              /\ Len(ret) = 1
              /\ ret[1] = fix_common(input)
        /\ entry \in {"fix_album_title", "fix_track_title"} =>
              ret = fix_common(input)

\* fix_artists_string has returned on an input that every stage rewrote.
C7_Witness ==
    /\ Done
    /\ pass = 1
    /\ entry = "fix_artists_string"
    /\ SomeRemovedBy("year")
    /\ SomeRemovedBy("mp3")
    /\ SomeRemovedBy("bitrate")
    /\ ret # <<input>>

\* C8: a title followed by a bracketed year, an mp3 label and a bracketed
\* bitrate "<digits> kbps", separated by spaces, comes back from
\* fix_album_title as the title alone; so do the inputs of the two tests.
C8_AnnotationsRemoved ==
    (Done /\ pass = 1 /\ entry = "fix_album_title") =>
        /\ \A t \in Titles, y \in YearTags, l \in Mp3Tags, b \in BitrateTags :
              input = Annotated(t, y, l, b) => ret = t
        /\ input \in {Tyler1, Tyler2} => ret = TylerClean

\* fix_album_title has returned the title of the second test.
C8_Witness ==
    /\ Done
    /\ pass = 1
    /\ entry = "fix_album_title"
    /\ input = Tyler2
    /\ ret = TylerClean
    /\ SomeRemovedBy("year")
    /\ SomeRemovedBy("mp3")
    /\ SomeRemovedBy("bitrate")

\* C9: a kbps of the input that does not follow digits, directly or across
\* whitespace, is in the text returned.
C9_PartialBitrateKept ==
    (Done /\ pass = 1) =>
        \A i \in 1..Len(input) :
            (UnitAt(input, i) /\ ~UnitFollowsDigits(input, i))
                => KeptTogether(i, 4)

\* C10: the characters of the text returned that are not whitespace are a
\* subsequence of those of the input, and the text returned is not longer
\* than the input.
C10_OnlyDeletes ==
    Done =>
        /\ IsSubseq(NonSpace(Cleaned), NonSpace(input))
        /\ Len(Cleaned) <= Len(input)

\* Every removal stage rewrote the input and text is returned.
C10_Witness ==
    /\ Done
    /\ pass = 1
    /\ entry = "fix_common"
    /\ SomeRemovedBy("year")
    /\ SomeRemovedBy("mp3")
    /\ SomeRemovedBy("bitrate")
    /\ Cleaned # <<>>
    /\ Len(Cleaned) < Len(input)

====
